---- MODULE Spec2Model ----
(***************************************************************************)
(* A model of pytta/classes.py: the SignalObj dual-domain signal (its two  *)
(* property setters and the metadata they derive), the arithmetic          *)
(* operators __truediv__, __add__, __sub__ and FRFMeasure.run.             *)
(*                                                                         *)
(* Sample values are exact numbers of the field Q(i, sqrt 3), which holds  *)
(* every root of unity the transforms of length 1, 2, 3, 4, 6 and 12 use,  *)
(* so the discrete Fourier transform and its inverse are computed exactly. *)
(* The one place where binary floating point decides a discrete outcome,   *)
(* the number of entries np.arange returns, is computed in IEEE-754        *)
(* double precision.                                                       *)
(***************************************************************************)
EXTENDS Integers, Sequences, FiniteSets, TLC

(***************************************************************************)
(* Bounds of the model.                                                    *)
(***************************************************************************)
\* largest number of samples (first axis) of a buffer handed to a setter
MaxLen == 3
\* largest size of the second and third axis of a buffer
MaxChan == 2
\* largest number of elements of a buffer
MaxSize == 4
\* largest number of samples of a rank-3 buffer (of shape <<n, 1, 1>>)
MaxCube == 1

\* sampling rates (Hz) a signal is constructed with
SampleRates == {8, 17}
\* real sample values of time-domain buffers
TimeVals == {1, 2}

(***************************************************************************)
(* Numbers: (a + b*i + c*sqrt3 + e*i*sqrt3) / q with integer a, b, c, e,   *)
(* q > 0 and gcd(a, b, c, e, q) = 1.  q = 0 stands for the non-finite      *)
(* values (inf, nan) a division by zero produces.                          *)
(***************************************************************************)
Abs(n) == IF n < 0 THEN -n ELSE n

Max(m, n) == IF m >= n THEN m ELSE n

RECURSIVE GcdNat(_, _)
GcdNat(m, n) == IF n = 0 THEN m ELSE GcdNat(n, m % n)

Gcd(m, n) == GcdNat(Abs(m), Abs(n))

Num(a, b, c, e, q) == [a |-> a, b |-> b, c |-> c, e |-> e, q |-> q]

NonFinite == Num(0, 0, 0, 0, 0)

Sign(n) == IF n < 0 THEN -1 ELSE 1

\* the numerators and the denominator divided by s
Scaled(a, b, c, e, q, s) ==
    Num(a \div s, b \div s, c \div s, e \div s, q \div s)

Norm(a, b, c, e, q) ==
    IF q = 0 THEN NonFinite
    ELSE Scaled(a, b, c, e, q, Sign(q) * Gcd(Gcd(Gcd(a, b), Gcd(c, e)), q))

Rat(n, d) == Norm(n, 0, 0, 0, d)
FromInt(n) == Num(n, 0, 0, 0, 1)
Zero == FromInt(0)
One == FromInt(1)
ImagUnit == Num(0, 1, 0, 0, 1)

IsFinite(x) == x.q # 0
IsReal(x) == x.b = 0 /\ x.e = 0

CAdd(x, y) ==
    IF x.q = 0 \/ y.q = 0 THEN NonFinite
    ELSE Norm(x.a * y.q + y.a * x.q, x.b * y.q + y.b * x.q,
              x.c * y.q + y.c * x.q, x.e * y.q + y.e * x.q, x.q * y.q)

CNeg(x) == Num(-x.a, -x.b, -x.c, -x.e, x.q)

CSub(x, y) == CAdd(x, CNeg(y))

CMul(x, y) ==
    IF x.q = 0 \/ y.q = 0 THEN NonFinite
    ELSE Norm(x.a * y.a - x.b * y.b + 3 * x.c * y.c - 3 * x.e * y.e,
              x.a * y.b + x.b * y.a + 3 * (x.c * y.e + x.e * y.c),
              x.a * y.c + x.c * y.a - (x.b * y.e + x.e * y.b),
              x.a * y.e + x.e * y.a + x.b * y.c + x.c * y.b,
              x.q * y.q)

CConj(x) == Num(x.a, -x.b, x.c, -x.e, x.q)

\* np.real
CReal(x) == Num(x.a, 0, x.c, 0, x.q)

\* 1 / x for finite x # 0: conj(x) / |x|^2, with |x|^2 = (A + C*sqrt3) / q^2
\* n * q / d for a number n and integers q, d
Ratio(n, q, d) == Norm(n.a * q, n.b * q, n.c * q, n.e * q, n.q * d)

\* (A - C*sqrt3) * conj(x) * x.q / (A*A - 3*C*C)
CInvOf(x, A, C) ==
    Ratio(CMul(Num(x.a, -x.b, x.c, -x.e, 1), Num(A, 0, -C, 0, 1)),
          x.q, A * A - 3 * C * C)

CInv(x) ==
    CInvOf(x, x.a * x.a + x.b * x.b + 3 * x.c * x.c + 3 * x.e * x.e,
           2 * (x.a * x.c + x.b * x.e))

\* numpy's elementwise "/": a zero divisor gives inf or nan and a warning,
\* never an exception
CDiv(x, y) ==
    IF x.q = 0 \/ y.q = 0 \/ y = Zero THEN NonFinite
    ELSE CMul(x, CInv(y))

\* exp(-2*pi*i / 12) = (sqrt3 - i) / 2
Zeta12 == Num(0, -1, 1, 0, 2)

RECURSIVE CPow(_, _)
CPow(x, k) == IF k = 0 THEN One ELSE CMul(x, CPow(x, k - 1))

Zeta12Pow == [k \in 0..11 |-> CPow(Zeta12, k)]

\* the transform lengths whose roots of unity lie in Q(i, sqrt 3)
DFTLens == {1, 2, 3, 4, 6, 12}

\* exp(-2*pi*i*p / n)
Twiddle(n, p) == Zeta12Pow[((12 \div n) * p) % 12]

RECURSIVE CSum(_)
CSum(s) == IF s = <<>> THEN Zero ELSE CAdd(Head(s), CSum(Tail(s)))

(***************************************************************************)
(* IEEE-754 double precision, for the one computation whose rounding       *)
(* decides a length: np.arange(0, stop, step) has ceil(stop / step)        *)
(* entries, the quotient being a float64 division of two float64 values.   *)
(* A positive double is m * 2^e with 2^52 <= m < 2^53; m is kept in two    *)
(* limbs <<hi, lo>> = hi * 2^27 + lo.                                      *)
(***************************************************************************)
MantissaBits == 53

LimbBase == 2^27

BigOf(n) == <<n \div LimbBase, n % LimbBase>>

BigLess(x, y) == x[1] < y[1] \/ (x[1] = y[1] /\ x[2] < y[2])

BigSub(x, y) ==
    IF x[2] >= y[2] THEN <<x[1] - y[1], x[2] - y[2]>>
    ELSE <<x[1] - y[1] - 1, x[2] + LimbBase - y[2]>>

BigDouble(x) == <<2 * x[1] + (2 * x[2]) \div LimbBase, (2 * x[2]) % LimbBase>>

BigInc(x) ==
    IF x[2] + 1 = LimbBase THEN <<x[1] + 1, 0>> ELSE <<x[1], x[2] + 1>>

BigHalf(x) == <<x[1] \div 2, (x[1] % 2) * (LimbBase \div 2) + x[2] \div 2>>

BigOdd(x) == x[2] % 2 = 1

\* 2^MantissaBits as a limb pair
MantissaTop == <<2^(MantissaBits - 27), 0>>

\* The quotient p / q (p, q > 0 limb pairs), correctly rounded to a double
\* (round to nearest, ties to even): scale by powers of two until
\* q <= p < 2q, then long division, one mantissa bit a step.
\* st = <<remainder, quotient so far>>; k more bits to produce
RECURSIVE QuotBits(_, _, _)
QuotBits(st, q, k) ==
    IF k = 0 THEN st
    ELSE LET r2 == BigDouble(st[1])
             a2 == BigDouble(st[2])
         IN  IF BigLess(r2, q) THEN QuotBits(<<r2, a2>>, q, k - 1)
             ELSE QuotBits(<<BigSub(r2, q), BigInc(a2)>>, q, k - 1)

\* the quotient bits st = <<remainder, quotient>> rounded to nearest, ties
\* to even
RoundedMantissa(st, q) ==
    IF BigLess(q, BigDouble(st[1])) \/ (BigDouble(st[1]) = q /\ BigOdd(st[2]))
    THEN BigInc(st[2])
    ELSE st[2]

\* a mantissa the rounding carried to 2^MantissaBits is halved
Carried(m, e) ==
    IF m = MantissaTop THEN [m |-> BigHalf(m), e |-> e + 1]
    ELSE [m |-> m, e |-> e]

\* p * 2^e / q for q <= p < 2q
Divided(p, q, e) ==
    Carried(RoundedMantissa(
                QuotBits(<<BigSub(p, q), <<0, 1>>>>, q, MantissaBits - 1), q),
            e - (MantissaBits - 1))

RECURSIVE ScaledQuotient(_, _, _)
ScaledQuotient(p, q, e) ==
    IF BigLess(p, q) THEN ScaledQuotient(BigDouble(p), q, e - 1)
    ELSE IF ~BigLess(p, BigDouble(q)) THEN ScaledQuotient(p, BigDouble(q), e + 1)
    ELSE Divided(p, q, e)

RoundedQuotient(p, q) == ScaledQuotient(p, q, 0)

\* float(n) / float(d) for Python ints n, d > 0, as Python's true division
\* rounds it
Float64(n, d) == RoundedQuotient(BigOf(n), BigOf(d))

\* x / y for two positive doubles
Float64Div(x, y) ==
    [RoundedQuotient(x.m, y.m) EXCEPT !.e = @ + x.e - y.e]

\* ceil(x) for a positive double below 2^27: the mantissa shifted right by
\* -e bits, plus one when a bit shifted out was set
RECURSIVE CeilShift(_, _, _)
CeilShift(m, e, sticky) ==
    IF e >= 0 THEN m[2] + sticky
    ELSE IF BigOdd(m) THEN CeilShift(BigHalf(m), e + 1, 1)
    ELSE CeilShift(BigHalf(m), e + 1, sticky)

Float64Ceil(x) == CeilShift(x.m, x.e, 0)

(***************************************************************************)
(* numpy arrays: a shape and the elements in row-major (C) order.          *)
(***************************************************************************)
RECURSIVE Prod(_)
Prod(shape) == IF shape = <<>> THEN 1 ELSE Head(shape) * Prod(Tail(shape))

Array(shape, data) == [shape |-> shape, data |-> data]

\* np.size(a.shape)
Ndim(arr) == Len(arr.shape)

\* len(a)
ArrLen(arr) == arr.shape[1]

Reverse(s) == [k \in 1..Len(s) |-> s[Len(s) + 1 - k]]

\* np.transpose(a) and a.transpose(): the axes reversed
Transpose(arr) ==
    LET sh == arr.shape
        r == Len(sh)
    IN  IF r = 1 THEN arr
        ELSE IF r = 2 THEN
            Array(Reverse(sh),
                  [p \in 1..Prod(sh) |->
                      LET c == (p - 1) \div sh[1]
                          n == (p - 1) % sh[1]
                      IN  arr.data[n * sh[2] + c + 1]])
        ELSE
            Array(Reverse(sh),
                  [p \in 1..Prod(sh) |->
                      LET k == (p - 1) \div (sh[2] * sh[1])
                          c == ((p - 1) \div sh[1]) % sh[2]
                          n == (p - 1) % sh[1]
                      IN  arr.data[(n * sh[2] + c) * sh[3] + k + 1]])

\* the length of the last axis, the one np.fft transforms
LastLen(arr) == arr.shape[Len(arr.shape)]

\* np.fft.fft(a): the discrete Fourier transform along the last axis,
\* X[k] = sum_m x[m] * exp(-2*pi*i*k*m / n)
FFT(arr) ==
    LET n == LastLen(arr)
    IN  Array(arr.shape,
              [p \in 1..Prod(arr.shape) |->
                  LET row == (p - 1) \div n
                      k == (p - 1) % n
                  IN  CSum([m \in 1..n |->
                          CMul(arr.data[row * n + m],
                               Twiddle(n, (k * (m - 1)) % n))])])

\* IFFT without the division by n: the inverse transform of a library that
\* leaves the scaling to the caller
IFFTUnscaled(arr) ==
    Array(arr.shape,
          [p \in 1..Prod(arr.shape) |->
              CSum([k \in 1..LastLen(arr) |->
                  CMul(arr.data[((p - 1) \div LastLen(arr)) * LastLen(arr) + k],
                       CConj(Twiddle(LastLen(arr),
                                     ((k - 1) * ((p - 1) % LastLen(arr)))
                                         % LastLen(arr))))])])

\* np.fft.ifft(a): x[m] = (1/n) * sum_k X[k] * exp(+2*pi*i*k*m / n)
IFFT(arr) ==
    LET n == LastLen(arr)
    IN  Array(arr.shape,
              [p \in 1..Prod(arr.shape) |->
                  LET row == (p - 1) \div n
                      m == (p - 1) % n
                  IN  CMul(Rat(1, n),
                           CSum([k \in 1..n |->
                               CMul(arr.data[row * n + k],
                                    CConj(Twiddle(n, ((k - 1) * m) % n)))]))])

\* np.real(a)
ArrReal(arr) == Array(arr.shape, [p \in 1..Len(arr.data) |-> CReal(arr.data[p])])

\* np.linspace(0, stop, num): num points from 0 to stop, both included
Linspace(stop, num) ==
    IF num = 1 THEN <<Zero>>
    ELSE LET step == CDiv(stop, FromInt(num - 1))
         IN  [k \in 1..num |-> CMul(FromInt(k - 1), step)]

\* the number of entries of np.arange(0, stop, step) for step > 0:
\* ceil(stop / step), computed on doubles
ArangeLen(stop, step) ==
    IF stop.a <= 0 THEN 0
    ELSE Float64Ceil(Float64Div(Float64(stop.a, stop.q), Float64(step.a, step.q)))

\* ArangeLen at the arguments the setter passes (numSamples / samplingRate
\* and 1 / samplingRate), evaluated once
ArangeLens ==
    LET args == {<<Rat(n, sr), Rat(1, sr)>> :
                     n \in 1..Max(MaxLen, MaxCube), sr \in SampleRates}
        f == [p \in args |-> ArangeLen(p[1], p[2])]
    IN  f @@ f

\* np.arange(0, stop, step): 0, step, 2*step, ...
Arange(stop, step) ==
    [k \in 1..ArangeLens[<<stop, step>>] |-> CMul(FromInt(k - 1), step)]

\* np.log2(n) for an int n >= 0: whole + log2(1 + over / 2^whole), kept as
\* the pair; log2(0) is -inf (a warning, no exception)
RECURSIVE FloorLog2(_)
FloorLog2(n) == IF n <= 1 THEN 0 ELSE 1 + FloorLog2(n \div 2)

NegInf == [whole |-> -1, over |-> 0]

Log2(n) ==
    IF n = 0 THEN NegInf
    ELSE [whole |-> FloorLog2(n), over |-> n - 2^FloorLog2(n)]

(***************************************************************************)
(* SignalObj.  A record holds the attributes of one instance.              *)
(***************************************************************************)
NoArray == Array(<<0>>, <<>>)

\* the attributes PyTTaObj.__init__ sets, before any buffer is assigned
PyTTaObjInit(samplingRate) ==
    [samplingRate |-> samplingRate,
     domain |-> "time",
     timeSignal |-> NoArray,
     freqSignal |-> NoArray,
     numSamples |-> 0,
     fftDegree |-> NegInf,
     timeLength |-> Zero,
     timeVector |-> <<>>,
     freqVector |-> <<>>]

\* the outcome of a call: the object as the call leaves it and the
\* exception it raised ("none" when it returned)
Outcome(obj, exc) == [obj |-> obj, raised |-> exc]

\* what a setter assigns: the attributes it has written when it returns or
\* raises, and the exception
Assigned(attrs, exc) == [attrs |-> attrs, raised |-> exc]

\* The timeSignal property setter, statement by statement: an exception
\* leaves the attributes assigned before it in place and the later ones as
\* they were.  First the statements up to self._timeVector = ...
timeSignalFirst(newSignal, samplingRate) ==
    [timeSignal |-> newSignal,
     numSamples |-> ArrLen(newSignal),
     fftDegree |-> Log2(ArrLen(newSignal)),
     timeLength |-> Rat(ArrLen(newSignal), samplingRate),
     timeVector |->
         Linspace(CSub(Rat(ArrLen(newSignal), samplingRate),
                       Rat(1, samplingRate)),
                  ArrLen(newSignal))]

\* self._freqVector = ... and self._freqSignal = ..., reading the
\* attributes assigned so far
timeSignalRest(first, samplingRate) ==
    IF first.numSamples = 0
    THEN \* (numSamples - 1) * samplingRate / numSamples
         Assigned(first, "ZeroDivisionError")
    ELSE Assigned(
             [freqVector |->
                  Linspace(Rat((first.numSamples - 1) * samplingRate,
                               first.numSamples),
                           first.numSamples),
              freqSignal |-> Transpose(FFT(Transpose(first.timeSignal)))]
             @@ first,
             "none")

timeSignalAssigns(newSignal, samplingRate) ==
    IF Ndim(newSignal) = 0
    THEN \* len() of unsized object
         Assigned([timeSignal |-> newSignal], "TypeError")
    ELSE timeSignalRest(timeSignalFirst(newSignal, samplingRate), samplingRate)

\* The freqSignal property setter: the statements after
\* self._timeSignal = ..., reading the attributes assigned so far
freqSignalRest(first, samplingRate) ==
    Assigned(
        [numSamples |-> ArrLen(first.timeSignal),
         fftDegree |-> Log2(ArrLen(first.timeSignal)),
         timeLength |-> Rat(ArrLen(first.timeSignal), samplingRate),
         timeVector |->
             Arange(Rat(ArrLen(first.timeSignal), samplingRate),
                    Rat(1, samplingRate)),
         freqVector |->
             Linspace(Rat((ArrLen(first.timeSignal) - 1) * samplingRate,
                          ArrLen(first.timeSignal)),
                      ArrLen(first.timeSignal))]
        @@ first,
        "none")

freqSignalAssigns(newSignal, samplingRate) ==
    IF LastLen(Transpose(newSignal)) = 0
    THEN \* np.fft.ifft: "Invalid number of FFT data points (0)"
         Assigned([freqSignal |-> newSignal], "ValueError")
    ELSE freqSignalRest(
             [freqSignal |-> newSignal,
              timeSignal |-> Transpose(ArrReal(IFFT(Transpose(newSignal))))],
             samplingRate)

\* SignalObj.size_check(inputArray): the number of axes
size_check(inputArray) == Ndim(inputArray)

\* SignalObj.num_channels()
num_channels(obj) ==
    IF Ndim(obj.timeSignal) >= 2 THEN obj.timeSignal.shape[2] ELSE 1

(***************************************************************************)
(* The buffers the model hands to the constructor and the setters.         *)
(***************************************************************************)
Shapes ==
    {<<n>> : n \in (0..MaxLen) \cap ({0} \cup DFTLens)}
    \cup {sh \in {<<n, c>> : n \in (1..MaxLen) \cap DFTLens, c \in 1..MaxChan} :
              Prod(sh) <= MaxSize}
    \cup {<<n, 1, 1>> : n \in (1..MaxCube) \cap DFTLens}

Buffers(vals) ==
    UNION {{Array(sh, d) : d \in [1..Prod(sh) -> vals]} : sh \in Shapes}

\* complex coefficient values of frequency-domain buffers
FreqVals == {One, ImagUnit}

TimeBuffers == Buffers({FromInt(v) : v \in TimeVals})
FreqBuffers == Buffers(FreqVals)

Domains == {"time", "freq", "samples"}

\* the setters' assignments for the buffers and rates of the model,
\* evaluated once
Tabulated(f) == f @@ f

TimeAssignsMemo ==
    Tabulated([p \in TimeBuffers \X SampleRates |->
                  timeSignalAssigns(p[1], p[2])])

FreqAssignsMemo ==
    Tabulated([p \in FreqBuffers \X SampleRates |->
                  freqSignalAssigns(p[1], p[2])])

\* the object after a setter has assigned w.attrs, and what it raised
Written(obj, w) == Outcome(w.attrs @@ obj, w.raised)

\* self.timeSignal = newSignal
timeSignalSetter(obj, newSignal) ==
    Written(obj,
            IF newSignal \in TimeBuffers /\ obj.samplingRate \in SampleRates
            THEN TimeAssignsMemo[<<newSignal, obj.samplingRate>>]
            ELSE timeSignalAssigns(newSignal, obj.samplingRate))

\* self.freqSignal = newSignal
freqSignalSetter(obj, newSignal) ==
    Written(obj,
            IF newSignal \in FreqBuffers /\ obj.samplingRate \in SampleRates
            THEN FreqAssignsMemo[<<newSignal, obj.samplingRate>>]
            ELSE freqSignalAssigns(newSignal, obj.samplingRate))

\* obj.domain = value: domain is a property with a getter only, so the
\* assignment raises AttributeError and changes nothing
domainAssign(obj, value) == Outcome(obj, "AttributeError")

\* the last branch of __init__ after its self.timeSignal = signalArray:
\* self.domain = 'time'
domainDefault(o) ==
    IF o.raised # "none" THEN o ELSE domainAssign(o.obj, "time")

\* SignalObj.__init__ from its size check on, on the attributes
\* PyTTaObj.__init__ has set
SignalObjBody(fresh, signalArray) ==
    IF size_check(signalArray) > 2
    THEN Outcome(fresh, "AttributeError")
    ELSE IF fresh.domain = "freq" THEN freqSignalSetter(fresh, signalArray)
    ELSE IF fresh.domain = "time" THEN timeSignalSetter(fresh, signalArray)
    ELSE domainDefault(timeSignalSetter(fresh, signalArray))

\* SignalObj.__init__(signalArray, domain, samplingRate)
SignalObjInit(signalArray, domain, samplingRate) ==
    SignalObjBody([PyTTaObjInit(samplingRate) EXCEPT !.domain = domain],
                  signalArray)

(***************************************************************************)
(* The arithmetic operators.  A Python value is a type name and, for a     *)
(* SignalObj, the attributes of the instance.                              *)
(***************************************************************************)
NoObject == PyTTaObjInit(0)

Value(type, obj) == [type |-> type, obj |-> obj]

\* the types of the right operands that are no SignalObj
OtherTypes == {"float", "ndarray"}

\* what an operator call leaves: the value it returned (NoObject when it
\* raised), the exception, and whether it had constructed its result object
Returned(obj, exc, made) == [result |-> obj, raised |-> exc, made |-> made]

\* a[:, c] of a rank-2 array, c counted from 0
Column(arr, c) ==
    Array(<<arr.shape[1]>>,
          [n \in 1..arr.shape[1] |-> arr.data[(n - 1) * arr.shape[2] + c + 1]])

\* x / y for two rank-1 arrays, with numpy's broadcasting: equal lengths,
\* or one of them of length 1; anything else raises ValueError
ArrDiv(x, y) ==
    LET nx == ArrLen(x)
        ny == ArrLen(y)
    IN  IF nx = ny
        THEN [arr |-> Array(<<nx>>, [k \in 1..nx |-> CDiv(x.data[k], y.data[k])]),
              raised |-> "none"]
        ELSE IF nx = 1
        THEN [arr |-> Array(<<ny>>, [k \in 1..ny |-> CDiv(x.data[1], y.data[k])]),
              raised |-> "none"]
        ELSE IF ny = 1
        THEN [arr |-> Array(<<nx>>, [k \in 1..nx |-> CDiv(x.data[k], y.data[1])]),
              raised |-> "none"]
        ELSE [arr |-> NoArray, raised |-> "ValueError"]

\* result.freqSignal[:, col] = values, an item assignment into the array
\* the getter returns: the array must have a second axis
ColumnAssign(arr, col, values) ==
    IF Ndim(arr) < 2 \/ col >= arr.shape[2]
    THEN [arr |-> arr, raised |-> "IndexError"]
    ELSE IF ArrLen(values) # arr.shape[1] /\ ArrLen(values) # 1
    THEN [arr |-> arr, raised |-> "ValueError"]
    ELSE [arr |->
             Array(arr.shape,
                   [p \in 1..Prod(arr.shape) |->
                       IF (p - 1) % arr.shape[2] = col
                       THEN values.data[IF ArrLen(values) = 1 THEN 1
                                        ELSE (p - 1) \div arr.shape[2] + 1]
                       ELSE arr.data[p]]),
          raised |-> "none"]

\* SignalObj(samplingRate=self.samplingRate): the default signalArray
\* np.array([0]) in the default domain 'time'
DefaultSignal(samplingRate) ==
    SignalObjInit(Array(<<1>>, <<Zero>>), "time", samplingRate)

\* the array after an item assignment, stored in result unless it raised
columnAssigned(result, w) ==
    IF w.raised # "none" THEN Outcome(result, w.raised)
    ELSE Outcome([result EXCEPT !.freqSignal = w.arr], "none")

\* result.freqSignal = q, q the outcome of the division
quotientAssign(result, q) ==
    IF q.raised # "none" THEN Outcome(result, q.raised)
    ELSE freqSignalSetter(result, q.arr)

RECURSIVE truedivLoopNext(_, _, _, _, _, _)
RECURSIVE truedivSelfNext(_, _, _, _)
RECURSIVE truedivOtherNext(_, _, _, _)

\* the two nested loops of the branch for two rank-2 operands, from the
\* iteration (channelA, channelB) on; i is the loop's column offset
\* result.freqSignal[:, col] = q, q the outcome of the division
columnAssign(result, col, q) ==
    IF q.raised # "none" THEN Outcome(result, q.raised)
    ELSE columnAssigned(result, ColumnAssign(result.freqSignal, col, q.arr))

RECURSIVE truedivLoop(_, _, _, _, _, _)
truedivLoop(result, self, other, channelA, channelB, i) ==
    IF channelA >= num_channels(self) THEN Outcome(result, "none")
    ELSE IF channelB >= num_channels(other)
    THEN \* i = channelB, the last value of the inner loop variable
         truedivLoop(result, self, other, channelA + 1, 0, channelB - 1)
    ELSE truedivLoopNext(
             columnAssign(result, i + channelB,
                          ArrDiv(Column(self.freqSignal, channelA),
                                      Column(other.freqSignal, channelB))),
             self, other, channelA, channelB, i)

\* the loop goes on unless the assignment raised
truedivLoopNext(o, self, other, channelA, channelB, i) ==
    IF o.raised # "none" THEN o
    ELSE truedivLoop(o.obj, self, other, channelA, channelB + 1, i)

\* for channel in range(self.num_channels()):
\*     result.freqSignal = self.freqSignal[:,channel] / other.freqSignal
RECURSIVE truedivSelfChannels(_, _, _, _)
truedivSelfChannels(result, self, other, channel) ==
    IF channel >= num_channels(self) THEN Outcome(result, "none")
    ELSE truedivSelfNext(
             quotientAssign(result,
                            ArrDiv(Column(self.freqSignal, channel),
                                        other.freqSignal)),
             self, other, channel)

truedivSelfNext(o, self, other, channel) ==
    IF o.raised # "none" THEN o
    ELSE truedivSelfChannels(o.obj, self, other, channel + 1)

\* for channel in range(self.num_channels()):
\*     result.freqSignal = self.freqSignal / other.freqSignal[:,channel]
RECURSIVE truedivOtherChannels(_, _, _, _)
truedivOtherChannels(result, self, other, channel) ==
    IF channel >= num_channels(self) THEN Outcome(result, "none")
    ELSE truedivOtherNext(
             quotientAssign(result,
                            ArrDiv(self.freqSignal,
                                        Column(other.freqSignal, channel))),
             self, other, channel)

truedivOtherNext(o, self, other, channel) ==
    IF o.raised # "none" THEN o
    ELSE truedivOtherChannels(o.obj, self, other, channel + 1)

\* truedivBranches with the quotient of two rank-1 operands taken the
\* other way round, other / self
truedivBranchesSwapped(result, self, other) ==
    IF size_check(self.timeSignal) > 1
    THEN IF size_check(other.timeSignal) > 1
         THEN truedivLoop(result, self, other, 0, 0, 0)
         ELSE truedivSelfChannels(result, self, other, 0)
    ELSE IF size_check(other.timeSignal) > 1
         THEN truedivOtherChannels(result, self, other, 0)
         ELSE quotientAssign(result,
                             ArrDiv(other.freqSignal, self.freqSignal))

\* the branches of __truediv__ on the two operands' numbers of axes
truedivBranches(result, self, other) ==
    IF size_check(self.timeSignal) > 1
    THEN IF size_check(other.timeSignal) > 1
         THEN truedivLoop(result, self, other, 0, 0, 0)
         ELSE truedivSelfChannels(result, self, other, 0)
    ELSE IF size_check(other.timeSignal) > 1
         THEN truedivOtherChannels(result, self, other, 0)
         ELSE quotientAssign(result,
                             ArrDiv(self.freqSignal, other.freqSignal))

\* return result, unless a statement before it raised
returnResult(o) ==
    IF o.raised # "none" THEN Returned(NoObject, o.raised, TRUE)
    ELSE Returned(o.obj, "none", TRUE)

\* __truediv__ after result = SignalObj(samplingRate=self.samplingRate):
\* result._domain = 'freq', the branches, return result
truedivResult(constructed, self, other) ==
    IF constructed.raised # "none"
    THEN Returned(NoObject, constructed.raised, FALSE)
    ELSE returnResult(
             truedivBranches([constructed.obj EXCEPT !.domain = "freq"],
                             self, other))

\* truediv without its type check: the operator goes on to construct its
\* result and to read other's attributes
truedivUnchecked(self, other) ==
    truedivResult(DefaultSignal(self.samplingRate), self, other.obj)

\* truediv with the result's sampling rate taken from the right operand
truedivOtherRate(self, other) ==
    IF other.type # "SignalObj"
    THEN Returned(NoObject, "TypeError", FALSE)
    ELSE truedivResult(DefaultSignal(other.obj.samplingRate), self, other.obj)

\* SignalObj.__truediv__(self, other); other is a Value
truediv(self, other) ==
    IF other.type # "SignalObj"
    THEN Returned(NoObject, "TypeError", FALSE)
    ELSE truedivResult(DefaultSignal(self.samplingRate), self, other.obj)

\* __add__ and __sub__ after result = SignalObj(...): result.domain = 'time'
addsubResult(constructed) ==
    IF constructed.raised # "none"
    THEN Returned(NoObject, constructed.raised, FALSE)
    ELSE returnResult(domainAssign(constructed.obj, "time"))

\* SignalObj.__add__ and SignalObj.__sub__ up to their statement
\* result.domain = 'time', which ends every call that passed the type check
addsub(self, other) ==
    IF other.type # "SignalObj"
    THEN Returned(NoObject, "TypeError", FALSE)
    ELSE addsubResult(DefaultSignal(self.samplingRate))

\* np.squeeze(a): the axes of length 1 removed
Squeeze(arr) ==
    Array(SelectSeq(arr.shape, LAMBDA d : d # 1), arr.data)

(***************************************************************************)
(* State.                                                                  *)
(***************************************************************************)
VARIABLES
    self,       \* the signal the setters write; the left operand
    created,    \* whether the constructor of self has returned
    other,      \* the right operand; the excitation of an FRFMeasure
    recording,  \* FRFMeasure.recording
    result,     \* what the last operator call or run() returned
    made,       \* whether the last operator call constructed its result
    returned,   \* the object the last operator call returned: "result", the
                \* one it constructed, "self", "other", or "none"
    call,       \* the name of the last call
    raised      \* the exception the last call raised, or "none"

vars ==
    <<self, created, other, recording, result, made, returned, call, raised>>

arithVars == <<other, recording, result, made, returned>>

(***************************************************************************)
(* Spec: one signal, constructed and then written through its setters.     *)
(***************************************************************************)
Init ==
    /\ self = NoObject
    /\ created = FALSE
    /\ other = Value("NoneType", NoObject)
    /\ recording = NoObject
    /\ result = NoObject
    /\ made = FALSE
    /\ returned = "none"
    /\ call = "none"
    /\ raised = "none"

\* the name self is bound only when the constructor returns
Constructs(o) ==
    /\ raised' = o.raised
    /\ created' = (o.raised = "none")
    /\ self' = IF o.raised = "none" THEN o.obj ELSE NoObject

\* a setter leaves the object as it was when it returned or raised
Writes(o) ==
    /\ self' = o.obj
    /\ raised' = o.raised

\* self = SignalObj(signalArray, domain, samplingRate)
Construct ==
    /\ ~created
    /\ \E domain \in Domains, samplingRate \in SampleRates :
         \E signalArray \in (IF domain = "freq" THEN FreqBuffers ELSE TimeBuffers) :
            Constructs(SignalObjInit(signalArray, domain, samplingRate))
    /\ call' = "__init__"
    /\ UNCHANGED arithVars

\* self.timeSignal = newSignal
SetTimeSignal ==
    /\ created
    /\ \E newSignal \in TimeBuffers : Writes(timeSignalSetter(self, newSignal))
    /\ call' = "timeSignal"
    /\ UNCHANGED <<created, arithVars>>

\* self.freqSignal = newSignal
SetFreqSignal ==
    /\ created
    /\ \E newSignal \in FreqBuffers : Writes(freqSignalSetter(self, newSignal))
    /\ call' = "freqSignal"
    /\ UNCHANGED <<created, arithVars>>

Next ==
    \/ Construct
    \/ SetTimeSignal
    \/ SetFreqSignal

Spec == Init /\ [][Next]_vars

(***************************************************************************)
(* SpecArith: two operands, then one operator call or one run().           *)
(***************************************************************************)
\* the signals a successful constructor call returns
Constructed ==
    {SignalObjInit(b, "time", sr) : b \in TimeBuffers, sr \in SampleRates}
    \cup {SignalObjInit(b, "freq", sr) : b \in FreqBuffers, sr \in SampleRates}

Operands == {o.obj : o \in {c \in Constructed : c.raised = "none"}}

\* created = FALSE: no left operand, other is the excitation of an
\* FRFMeasure that has not run yet
InitArith ==
    /\ \/ self \in Operands /\ created = TRUE
       \/ self = NoObject /\ created = FALSE
    /\ other \in {Value("SignalObj", o) : o \in Operands}
                 \cup {Value(t, NoObject) : t \in OtherTypes}
    /\ recording = NoObject
    /\ result = NoObject
    /\ made = FALSE
    /\ returned = "none"
    /\ call = "none"
    /\ raised = "none"

\* resultObject of an operator that works in place and returns self
resultObjectSelf(r) == IF r.raised = "none" THEN "self" ELSE "none"

\* return result: the name result was bound, by result = SignalObj(...),
\* to the object the call constructed; a call that raises returns nothing
resultObject(r) == IF r.raised = "none" THEN "result" ELSE "none"

Returns(r) ==
    /\ result' = r.result
    /\ raised' = r.raised
    /\ made' = r.made
    /\ returned' = resultObject(r)

\* self / other
TrueDiv ==
    /\ created
    /\ call = "none"
    /\ Returns(truediv(self, other))
    /\ call' = "__truediv__"
    /\ UNCHANGED <<self, created, other, recording>>

\* self + other
Add ==
    /\ created
    /\ call = "none"
    /\ Returns(addsub(self, other))
    /\ call' = "__add__"
    /\ UNCHANGED <<self, created, other, recording>>

\* self - other
Sub ==
    /\ created
    /\ call = "none"
    /\ Returns(addsub(self, other))
    /\ call' = "__sub__"
    /\ UNCHANGED <<self, created, other, recording>>

\* what the sound device hands back to PlayRecMeasure.run for the
\* excitation: as many frames as the excitation has samples, one column an
\* input channel
Recorded(excitation) ==
    {b \in TimeBuffers :
        Ndim(b) = 2 /\ ArrLen(b) = ArrLen(excitation.timeSignal)}

\* self.recording = r and self.transferfunction = self.recording /
\* self.excitation, r the outcome of constructing the recording
Measures(r) ==
    IF r.raised # "none"
    THEN /\ Returns(Returned(NoObject, r.raised, FALSE))
         /\ UNCHANGED recording
    ELSE /\ recording' = r.obj
         /\ Returns(truediv(r.obj, other))

\* FRFMeasure.run(), with PlayRecMeasure.run() inlined
Run ==
    /\ ~created
    /\ call = "none"
    /\ IF other.type # "SignalObj"
       THEN \* self.excitation.timeSignal
            /\ Returns(Returned(NoObject, "AttributeError", FALSE))
            /\ UNCHANGED recording
       ELSE \E played \in Recorded(other.obj) :
               Measures(SignalObjInit(Squeeze(played), "time",
                                      other.obj.samplingRate))
    /\ call' = "run"
    /\ UNCHANGED <<self, created, other>>

NextArith ==
    \/ TrueDiv
    \/ Add
    \/ Sub
    \/ Run

SpecArith == InitArith /\ [][NextArith]_vars

(***************************************************************************)
(* SpecOwn: two operands, one operator call, then writes through the       *)
(* setters of the signal the call returned.                                *)
(***************************************************************************)
\* the operands: two-sample signals of one and of two axes, at every rate
OwnOperands ==
    {o \in Operands :
        o.domain = "time" /\ o.numSamples = 2 /\ o.timeSignal.data[1] = One}

InitOwn ==
    /\ self \in OwnOperands
    /\ created = TRUE
    /\ other \in {Value("SignalObj", o) : o \in OwnOperands}
                 \cup {Value(t, NoObject) : t \in OtherTypes}
    /\ recording = NoObject
    /\ result = NoObject
    /\ made = FALSE
    /\ returned = "none"
    /\ call = "none"
    /\ raised = "none"

\* the buffers written to the returned signal: one axis, up to two samples
ResultBuffers(buffers) == {b \in buffers : Ndim(b) = 1 /\ ArrLen(b) <= 2}

\* a setter call on the object the name denotes leaves that object as o.obj
\* and every other object as it was
WritesTo(name, o) ==
    /\ raised' = o.raised
    /\ result' = o.obj
    /\ self' = IF name = "self" THEN o.obj ELSE self
    /\ other' = IF name = "other" THEN [other EXCEPT !.obj = o.obj] ELSE other

\* r = self / other; r.timeSignal = newSignal
WriteResultTime ==
    /\ returned # "none"
    /\ \E newSignal \in ResultBuffers(TimeBuffers) :
         WritesTo(returned, timeSignalSetter(result, newSignal))
    /\ call' = "result.timeSignal"
    /\ UNCHANGED <<created, recording, made, returned>>

\* r = self / other; r.freqSignal = newSignal
WriteResultFreq ==
    /\ returned # "none"
    /\ \E newSignal \in ResultBuffers(FreqBuffers) :
         WritesTo(returned, freqSignalSetter(result, newSignal))
    /\ call' = "result.freqSignal"
    /\ UNCHANGED <<created, recording, made, returned>>

NextOwn ==
    \/ TrueDiv
    \/ Add
    \/ Sub
    \/ WriteResultTime
    \/ WriteResultFreq

SpecOwn == InitOwn /\ [][NextOwn]_vars

(***************************************************************************)
(* SpecRound: a signal written in the time domain, then a fresh signal     *)
(* constructed from its spectrum.                                          *)
(***************************************************************************)
\* the name fresh is bound only when the constructor returns
Reconstructs(o) ==
    /\ raised' = o.raised
    /\ result' = IF o.raised = "none" THEN o.obj ELSE NoObject
    /\ made' = (o.raised = "none")
    /\ returned' = IF o.raised = "none" THEN "result" ELSE "none"

\* fresh = SignalObj(self.freqSignal, 'freq', self.samplingRate), once, for
\* a signal whose last write was one of timeSignal
Reconstruct ==
    /\ created
    /\ raised = "none"
    /\ result = NoObject
    /\ call = "timeSignal" \/ (call = "__init__" /\ self.domain = "time")
    /\ Reconstructs(SignalObjInit(self.freqSignal, "freq", self.samplingRate))
    /\ call' = "roundtrip"
    /\ UNCHANGED <<self, created, other, recording>>

NextRound ==
    \/ Construct
    \/ SetTimeSignal
    \/ Reconstruct

SpecRound == Init /\ [][NextRound]_vars

(***************************************************************************)
(* The properties checked.  The transforms are restated here along the     *)
(* sample axis (the first one) by index arithmetic on the row-major data,  *)
(* without Transpose, FFT or IFFT.                                         *)
(***************************************************************************)
\* the number of series (channels) an array holds along its first axis
Series(arr) == Prod(Tail(arr.shape))

\* sample n of series r, both counted from 0
Sample(arr, n, r) == arr.data[n * Series(arr) + r + 1]

\* X[k, r] = sum_m x[m, r] * exp(-2*pi*i*k*m / N) for every series r
SampleDFT(arr) ==
    Array(arr.shape,
          [p \in 1..Prod(arr.shape) |->
              CSum([m \in 1..ArrLen(arr) |->
                  CMul(Sample(arr, m - 1, (p - 1) % Series(arr)),
                       Twiddle(ArrLen(arr),
                               (((p - 1) \div Series(arr)) * (m - 1))
                                   % ArrLen(arr)))])])

\* x[m, r] = (1/N) * sum_k X[k, r] * exp(+2*pi*i*k*m / N) for every series r
SampleIDFT(arr) ==
    Array(arr.shape,
          [p \in 1..Prod(arr.shape) |->
              CMul(Rat(1, ArrLen(arr)),
                   CSum([k \in 1..ArrLen(arr) |->
                       CMul(Sample(arr, k - 1, (p - 1) % Series(arr)),
                            CConj(Twiddle(ArrLen(arr),
                                          (((p - 1) \div Series(arr)) * (k - 1))
                                              % ArrLen(arr))))]))])

RealPart(arr) ==
    Array(arr.shape,
          [p \in 1..Prod(arr.shape) |->
              Num(arr.data[p].a, 0, arr.data[p].c, 0, arr.data[p].q)])

\* X[k] = conj(X[(N - k) mod N]) in every series: the spectrum of a real
\* signal
ConjSymmetric(arr) ==
    \A n \in 0..(ArrLen(arr) - 1), r \in 0..(Series(arr) - 1) :
        Sample(arr, n, r) = CConj(Sample(arr, (ArrLen(arr) - n) % ArrLen(arr), r))

\* the last call was a constructor or setter call on self that returned
WriteReturned == created /\ raised = "none"

C2_Metadata ==
    WriteReturned =>
        /\ self.numSamples = ArrLen(self.timeSignal)
        /\ self.numSamples = ArrLen(self.freqSignal)
        /\ self.timeLength = Rat(self.numSamples, self.samplingRate)
        /\ self.timeVector =
               [k \in 1..self.numSamples |-> Rat(k - 1, self.samplingRate)]
        /\ self.freqVector =
               [k \in 1..self.numSamples |->
                   Rat((k - 1) * self.samplingRate, self.numSamples)]

\* C3 as stated: a setter call that fails (the only ones that do are those
\* with a zero-length buffer) leaves every attribute of the object as it
\* was, and numSamples > 0 in every state of a signal.
C3_FailedWriteChangesNothing ==
    [][/\ (created /\ raised' # "none") => self' = self
       /\ created' => self'.numSamples > 0]_vars

\* C4 as stated: the timeSignal of a signal has one or two axes in every
\* reachable state (a write with more axes is refused).
C4_RankAtMostTwo ==
    created => Ndim(self.timeSignal) \in {1, 2}

\* both operands are signals of one axis and of the same length
SingleChannelPair ==
    /\ other.type = "SignalObj"
    /\ Ndim(self.timeSignal) = 1
    /\ Ndim(other.obj.timeSignal) = 1
    /\ self.numSamples = other.obj.numSamples

\* C5 as stated: for two single-channel signals of equal length, self + other
\* and self - other return a single-channel signal whose timeSignal is the
\* element-wise sum, respectively difference.
C5_SingleChannelAddSub ==
    (SingleChannelPair /\ call \in {"__add__", "__sub__"}) =>
        /\ raised = "none"
        /\ Ndim(result.timeSignal) = 1
        /\ result.timeSignal.data =
               [k \in 1..self.numSamples |->
                   IF call = "__add__"
                   THEN CAdd(self.timeSignal.data[k], other.obj.timeSignal.data[k])
                   ELSE CSub(self.timeSignal.data[k], other.obj.timeSignal.data[k])]

\* z = x / y: z * y = x, and a non-finite z for y = 0
IsQuotient(z, x, y) ==
    IF y = Zero \/ ~IsFinite(x) \/ ~IsFinite(y) THEN ~IsFinite(z)
    ELSE CMul(z, y) = x

\* C6 as stated, for the division: self with n > 1 channels divided by a
\* single-channel other of the same length gives n channels, channel c being
\* (channel c of self) / other; a single-channel self divided by an other
\* with n > 1 channels gives n channels, channel c being self / (channel c
\* of other).
C6_ChannelBroadcast ==
    /\ (/\ call = "__truediv__"
        /\ other.type = "SignalObj"
        /\ num_channels(self) > 1
        /\ Ndim(other.obj.timeSignal) = 1
        /\ self.numSamples = other.obj.numSamples) =>
            /\ raised = "none"
            /\ result.freqSignal.shape = self.freqSignal.shape
            /\ \A n \in 0..(self.numSamples - 1), c \in 0..(num_channels(self) - 1) :
                  IsQuotient(Sample(result.freqSignal, n, c),
                             Sample(self.freqSignal, n, c),
                             Sample(other.obj.freqSignal, n, 0))
    /\ (/\ call = "__truediv__"
        /\ other.type = "SignalObj"
        /\ Ndim(self.timeSignal) = 1
        /\ num_channels(other.obj) > 1
        /\ self.numSamples = other.obj.numSamples) =>
            /\ raised = "none"
            /\ result.freqSignal.shape = other.obj.freqSignal.shape
            /\ \A n \in 0..(self.numSamples - 1),
                  c \in 0..(num_channels(other.obj) - 1) :
                  IsQuotient(Sample(result.freqSignal, n, c),
                             Sample(self.freqSignal, n, 0),
                             Sample(other.obj.freqSignal, n, c))

\* C7 as stated, for the division: with n > 1 channels in self and m > 1 in
\* other (and the same length) the call returns n * m channels, channel
\* a * m + b being (channel a of self) / (channel b of other).
C7_OuterProduct ==
    (/\ call = "__truediv__"
     /\ other.type = "SignalObj"
     /\ num_channels(self) > 1
     /\ num_channels(other.obj) > 1
     /\ self.numSamples = other.obj.numSamples) =>
        /\ raised = "none"
        /\ result.freqSignal.shape =
               <<self.numSamples, num_channels(self) * num_channels(other.obj)>>
        /\ \A n \in 0..(self.numSamples - 1),
              a \in 0..(num_channels(self) - 1),
              b \in 0..(num_channels(other.obj) - 1) :
              IsQuotient(Sample(result.freqSignal, n,
                                a * num_channels(other.obj) + b),
                         Sample(self.freqSignal, n, a),
                         Sample(other.obj.freqSignal, n, b))

\* C8 as stated, for the setters: after a write of timeSignal that returned
\* the domain is 'time', after a write of freqSignal it is 'freq'.
C8_DomainFollowsWrite ==
    WriteReturned =>
        /\ call = "timeSignal" => self.domain = "time"
        /\ call = "freqSignal" => self.domain = "freq"

\* C9: an operator call whose right operand is no SignalObj raises TypeError
\* before a result object is constructed, returns nothing and leaves both
\* operands as they were, whatever the left operand.
C9_TypeError ==
    [][(call' \in {"__truediv__", "__add__", "__sub__"}
            /\ other.type # "SignalObj") =>
           /\ raised' = "TypeError"
           /\ ~made'
           /\ result' = NoObject
           /\ self' = self
           /\ other' = other]_vars

\* a two-channel signal has been divided by a float
C9_MultiChannelByFloat ==
    /\ call = "__truediv__"
    /\ other.type = "float"
    /\ num_channels(self) = 2
    /\ raised = "TypeError"

\* C10: for two single-channel signals of equal length, self / other returns
\* a single-channel signal with freqSignal[k] = self.freqSignal[k] /
\* other.freqSignal[k] for every k and timeSignal = Re(IDFT(freqSignal));
\* run() returns recording / excitation for the recording it stored.
C10_PointwiseQuotient ==
    /\ (SingleChannelPair /\ call = "__truediv__") =>
          /\ raised = "none"
          /\ result.freqSignal.shape = <<self.numSamples>>
          /\ \A n \in 0..(self.numSamples - 1) :
                IsQuotient(Sample(result.freqSignal, n, 0),
                           Sample(self.freqSignal, n, 0),
                           Sample(other.obj.freqSignal, n, 0))
          /\ result.timeSignal = RealPart(SampleIDFT(result.freqSignal))
    /\ (call = "run" /\ recording # NoObject) =>
          /\ Returned(result, raised, made) = truediv(recording, other)
          /\ (/\ Ndim(recording.timeSignal) = 1
              /\ Ndim(other.obj.timeSignal) = 1
              /\ recording.numSamples = other.obj.numSamples) =>
                /\ raised = "none"
                /\ \A n \in 0..(recording.numSamples - 1) :
                      IsQuotient(Sample(result.freqSignal, n, 0),
                                 Sample(recording.freqSignal, n, 0),
                                 Sample(other.obj.freqSignal, n, 0))

\* two different single-channel signals of three samples have been divided,
\* none of the divisors being zero
C10_ThreeSampleQuotient ==
    /\ SingleChannelPair
    /\ call = "__truediv__"
    /\ raised = "none"
    /\ self.numSamples = 3
    /\ self.freqSignal # other.obj.freqSignal
    /\ \A n \in 0..2 : Sample(other.obj.freqSignal, n, 0) # Zero

Operators == {"__truediv__", "__add__", "__sub__"}

ResultWrites == {"result.timeSignal", "result.freqSignal"}

C13_RoundTrip ==
    (/\ call = "roundtrip"
     /\ Ndim(self.timeSignal) \in {1, 2}
     /\ self.numSamples > 0) =>
        /\ raised = "none"
        /\ result.timeSignal = self.timeSignal
        /\ num_channels(result) = num_channels(self)
        /\ result.numSamples = self.numSamples
        /\ result.timeVector = self.timeVector
        /\ result.freqVector = self.freqVector

====
